---- MODULE Spec2Model ----
(***************************************************************************)
(* Model of homework.py: a single-threaded bot that polls the homework     *)
(* review API, diffs the newest homework's report against the previously   *)
(* notified report and sends a Telegram message on change.                 *)
(*                                                                         *)
(* Python values are encoded as follows.                                   *)
(*   - an optional string (a dict value that may be missing or None) is a  *)
(*     string, with the two sentinels Absent (no such key) and None;       *)
(*   - a report's output is a tagged record: None, a str, or an exception  *)
(*     OBJECT.  Exception classes define no __eq__, so two exceptions are  *)
(*     equal only when they are the same object; the id field is the       *)
(*     object's identity;                                                  *)
(*   - the Russian texts of the source are transliterated (the module is   *)
(*     ASCII), the en dash of the error notification is written "-" and   *)
(*     the backquotes of one TypeError message are written as quotes.      *)
(***************************************************************************)
EXTENDS Integers, Sequences, FiniteSets, TLC

VARIABLES
    env,             \* os.getenv of the three credentials: name -> present?
    pc,              \* position of main()
    tokens_missing,  \* check_tokens: the names it found absent
    timestamp,       \* main: the cursor
    current_report,  \* main: dict {'homework', 'output'}
    prev_report,     \* main: dict {'homework', 'output'}
    shared,          \* main: prev_report and current_report are one dict object
    error,           \* main: the exception bound by 'except Exception as error'
    payload,         \* get_api_answer: from_date of the latest request
    sent,            \* bot.send_message calls of the current cycle, in order
    sleeps,          \* time.sleep calls (their durations) since the latest fetch
    fetches,         \* requests.get calls since the latest sleep
    input,           \* observation: what the environment answered in this cycle
    cycle,           \* observation of the current cycle (outcome, flags)
    hist,            \* observation of the earlier cycles
    arg,             \* a direct call of a helper function: the function and its argument
    result           \* the outcome of that call

vars == <<env, pc, tokens_missing, timestamp, current_report, prev_report,
          shared, error, payload, sent, sleeps, fetches, input, cycle, hist, arg, result>>

---------------------------------------------------------------------------
(* Bounds of the model *)

\* longest homeworks list the modelled API returns
MaxHomeworks == 2

---------------------------------------------------------------------------
(* Program constants *)

RETRY_PERIOD == 600

HTTP_OK == 200

Absent == "<absent>"

None == "<None>"

TokenNames == {"PRACTICUM_TOKEN", "TELEGRAM_TOKEN", "TELEGRAM_CHAT_ID"}

\* HOMEWORK_VERDICTS (transliterated)
VerdictStatuses == {"approved", "reviewing", "rejected"}

\* a bug: the texts of two verdicts exchanged
HOMEWORK_VERDICTS_Exchanged ==
    [s \in VerdictStatuses |->
        CASE s = "approved"  -> "Rabota proverena: u revyuera est zamechaniya."
          [] s = "reviewing" -> "Rabota vzyata na proverku revyuerom."
          [] s = "rejected"  -> "Rabota proverena: revyueru vsyo ponravilos. Ura!"]

HOMEWORK_VERDICTS ==
    [s \in VerdictStatuses |->
        CASE s = "approved"  -> "Rabota proverena: revyueru vsyo ponravilos. Ura!"
          [] s = "reviewing" -> "Rabota vzyata na proverku revyuerom."
          [] s = "rejected"  -> "Rabota proverena: u revyuera est zamechaniya."]

---------------------------------------------------------------------------
(* Python values *)

\* str(v) of an optional string
Str(v) == IF v = None THEN "None" ELSE v

NoneOut == [t |-> "none", s |-> "", cls |-> "", id |-> 0]

StrOut(m) == [t |-> "str", s |-> m, cls |-> "", id |-> 0]

\* an exception object of class cls whose str() is msg, with identity id
Exc(cls, msg, id) == [t |-> "exc", s |-> msg, cls |-> cls, id |-> id]

NoError == [t |-> "unbound", s |-> "", cls |-> "", id |-> 0]

\* a == b on report outputs: str and None compare by value, exception
\* objects by identity
PyEq(a, b) ==
    IF a.t = "exc" /\ b.t = "exc" THEN a.id = b.id ELSE a = b

\* the identity of a newly created exception object: different from every
\* exception object still referenced (by current_report or prev_report)
FreshId(cur, prev) ==
    LET used == {r.output.id : r \in {x \in {cur, prev} : x.output.t = "exc"}}
    IN  CHOOSE i \in 0..2 : i \notin used /\ \A j \in 0..(i - 1) : j \in used

\* the outcome of a call: an exception raised (its class and str()), or a
\* normal return (s carries a returned string)
Raise(cls, msg) == [raised |-> TRUE, cls |-> cls, s |-> msg]

Return(v) == [raised |-> FALSE, cls |-> "", s |-> v]

---------------------------------------------------------------------------
(* What the environment can hand to the program *)

\* int(time.time()) at startup and the current_date values of the API
Times == {1000, 2000}

\* status codes the API answers with
StatusCodes == {HTTP_OK, 500}

\* str() of the requests.RequestException of a failed request
NetworkErrors == {"Connection refused"}

Homework(n, st) == [homework_name |-> n, status |-> st]

\* the homework a response may list first
FirstHomeworks ==
    { Homework("hw1", "approved"), Homework("hw1", "reviewing"),
      Homework("hw2", "reviewing"), Homework("hw1", "rejected"),
      Homework("hw1", "unknown"), Homework("hw1", Absent),
      Homework(Absent, "approved"), Homework(None, "approved") }

\* the homeworks a response may list after the first
RestHomeworks ==
    { Homework("hw2", "approved"), Homework(Absent, "reviewing"),
      Homework("hw1", "unknown") }

RECURSIVE Lists(_)
Lists(n) ==
    IF n = 0 THEN {<<>>}
    ELSE LET shorter == Lists(n - 1)
         IN  shorter \cup
             { IF l = <<>> THEN <<h>> ELSE Append(l, h) :
                 l \in {x \in shorter : Len(x) = n - 1},
                 h \in IF n = 1 THEN FirstHomeworks ELSE RestHomeworks }

\* response['homeworks'] / response['current_date'] as optional values
NoKey == [t |-> "absent", l |-> <<>>, i |-> 0]

NoneVal == [t |-> "none", l |-> <<>>, i |-> 0]

OtherVal == [t |-> "other", l |-> <<>>, i |-> 0]

ListVal(l) == [t |-> "list", l |-> l, i |-> 0]

IntVal(i) == [t |-> "int", l |-> <<>>, i |-> i]

\* response.json(): a JSON value that is no object, or an object
NotADict == [isDict |-> FALSE, homeworks |-> NoKey, current_date |-> NoKey]

Responses ==
    {NotADict} \cup
    [isDict : {TRUE},
     homeworks : {NoKey, NoneVal, OtherVal} \cup {ListVal(l) : l \in Lists(MaxHomeworks)},
     current_date : {NoKey, NoneVal} \cup {IntVal(t) : t \in Times}]

\* a body that response.json() cannot decode
InvalidJson == [isDict |-> FALSE, homeworks |-> NoneVal, current_date |-> OtherVal]

Bodies == Responses \cup {InvalidJson}

\* a bug: 'key not in d', which lets a null value through
GetIsNone_KeyMissing(v) == v.t = "absent"

\* d.get(key) is None
GetIsNone(v) == v.t \in {"absent", "none"}

---------------------------------------------------------------------------
(* The helper functions of homework.py *)

\* check_tokens: the names whose token is None
\* a bug: the test made on the name of the token, which is never None
TokensMissing_NameTested(e) == {}

TokensMissing(e) == {n \in TokenNames : ~e[n]}

\* get_api_answer: neterr is str() of the RequestException of requests.get
\* ("" when it returned), code the status code and body the body of the answer
GetApiAnswer(ts, neterr, code, body) ==
    IF neterr # ""
    THEN Raise("APIError",
               "API didn't return correct answer. Error " \o neterr
                   \o ". From date: " \o ToString(ts))
    ELSE IF code # HTTP_OK
    THEN Raise("APIError", "API returned status " \o ToString(code))
    ELSE IF body = InvalidJson
    THEN Raise("JSONDecodeError", "Expecting value: line 1 column 1 (char 0)")
    ELSE Return("")

\* a bug: only the key 'homeworks' looked for
CheckResponse_HomeworksOnly(r) ==
    IF ~r.isDict
    THEN Raise("TypeError", "Unexpected data structure in API response")
    ELSE IF GetIsNone(r.homeworks)
    THEN Raise("APIKeyError", "API response doesn't contain key 'homeworks'")
    ELSE IF r.homeworks.t # "list"
    THEN Raise("TypeError", "Key 'homeworks' in API response is not list type")
    ELSE Return("")

CheckResponse(r) ==
    IF ~r.isDict
    THEN Raise("TypeError", "Unexpected data structure in API response")
    ELSE IF GetIsNone(r.homeworks)
    THEN Raise("APIKeyError", "API response doesn't contain key 'homeworks'")
    ELSE IF GetIsNone(r.current_date)
    THEN Raise("APIKeyError", "API response doesn't contain key 'current_date'")
    ELSE IF r.homeworks.t # "list"
    THEN Raise("TypeError", "Key 'homeworks' in API response is not list type")
    ELSE Return("")

\* homework.get(key): None when the key is missing
DictGet(v) == IF v = Absent THEN None ELSE v

\* a bug: the status looked up before the name is checked
ParseStatus_StatusFirst(homework) ==
    LET homework_name == DictGet(homework.homework_name)
        status == DictGet(homework.status)
    IN  IF status \notin DOMAIN HOMEWORK_VERDICTS
        THEN Raise("HomeworkStatusError",
                   "Unexpected status of homework: \"" \o Str(status) \o "\"")
        ELSE IF homework_name = None
        THEN Raise("HomeworkNameNotFoundError",
                   "Key \"homework_name\" not found in this homework")
        ELSE Return("Izmenilsya status proverki raboty \"" \o homework_name
                        \o "\". " \o HOMEWORK_VERDICTS[status])

ParseStatus(homework) ==
    LET homework_name == DictGet(homework.homework_name)
        status == DictGet(homework.status)
    IN  IF homework_name = None
        THEN Raise("HomeworkNameNotFoundError",
                   "Key \"homework_name\" not found in this homework")
        ELSE IF status \notin DOMAIN HOMEWORK_VERDICTS
        THEN Raise("HomeworkStatusError",
                   "Unexpected status of homework: \"" \o Str(status) \o "\"")
        ELSE Return("Izmenilsya status proverki raboty \"" \o homework_name
                        \o "\". " \o HOMEWORK_VERDICTS[status])

\* a bug: send_message without its try statement
SendMessageRaises_OnFailure(delivered) == ~delivered

\* send_message: whether a failed delivery (telegram.error.TelegramError)
\* leaves send_message as an exception; it is caught and logged
SendMessageRaises(delivered) == FALSE

\* a bug: the reports compared by identity (two dicts are never the same object)
ReportsDiffer_Identity(cur, prev) == TRUE

\* current_report != prev_report (dict comparison, value by value)
ReportsDiffer(cur, prev) ==
    ~(cur.homework = prev.homework /\ PyEq(cur.output, prev.output))


\* a bug: the empty list not recognised
NoUpdates_Never(homeworks) == FALSE

\* 'if not homeworks' (line 136)
NoUpdates(homeworks) == Len(homeworks) = 0

\* a bug: the sleep at the end of the try block instead of in a finally clause
ContinueTarget_LoopHead == "fetch"

\* where 'continue' (line 138) leaves the try statement: through the
\* finally clause, which sleeps
ContinueTarget == "sleep"

\* a bug: line 150 inside the if of line 146
AdvanceCursor_IfNotified(ts, current_date, notified) ==
    IF notified THEN current_date ELSE ts

\* the cursor after line 150; notified is whether the if of line 146 was taken
AdvanceCursor(ts, current_date, notified) == current_date

\* a bug: homeworks[-1]
FirstOf_Last(homeworks) == homeworks[Len(homeworks)]

\* homeworks[0]
FirstOf(homeworks) == homeworks[1]

Sent(text, delivered) == [text |-> text, delivered |-> delivered]

\* what the name prev_report is bound to: the dict object current_report
\* names too (shared), or a dict of its own with these items
Ref(dict, same) == [dict |-> dict, shared |-> same]

\* the items of the dict a reference names, cur being those of current_report
Deref(ref, cur) == IF ref.shared THEN cur ELSE ref.dict

\* a bug: prev_report = current_report, without copy()
Copy_SameObject(d) == Ref(d, TRUE)

\* current_report.copy(): a new dict object with the items of d
Copy(d) == Ref(d, FALSE)

\* outcome of a block of main from its locals: the call that raised if any
\* (by) and its exception (exc), whether the block left through 'continue',
\* the locals afterwards (prev is what prev_report is bound to) and the
\* messages handed to the bot
Body(by, exc, continued, cur, prev, ts, msgs) ==
    [raised |-> by # "", by |-> by, exc |-> exc, continued |-> continued,
     current_report |-> cur, prev_report |-> Deref(prev, cur),
     shared |-> prev.shared, timestamp |-> ts, sent |-> msgs]

\* lines 139-150; delivered is whether the bot delivers a message sent now
ReportBody(cur, prev, resp, ts, delivered) ==
    LET homeworks == resp.homeworks.l
        id == FreshId(cur, Deref(prev, cur))
    IN  IF Len(homeworks) = 0
        THEN Body("homeworks[0]", Exc("IndexError", "list index out of range", id),
                  FALSE, cur, prev, ts, <<>>)
        ELSE
        LET homework == FirstOf(homeworks)
        IN  IF homework.homework_name = Absent
            THEN Body("homework['homework_name']", Exc("KeyError", "'homework_name'", id),
                      FALSE, cur, prev, ts, <<>>)
            ELSE
            LET cur1 == [cur EXCEPT !.homework = homework.homework_name]
                parsed == ParseStatus(homework)
            IN  IF parsed.raised
                THEN Body("parse_status", Exc(parsed.cls, parsed.s, id),
                          FALSE, cur1, prev, ts, <<>>)
                ELSE
                LET message == parsed.s
                    cur2 == [cur1 EXCEPT !.output = StrOut(message)]
                    notified == ReportsDiffer(cur2, Deref(prev, cur2))
                    msgs == IF notified THEN <<Sent(message, delivered)>> ELSE <<>>
                    prev1 == IF notified THEN Copy(cur2) ELSE prev
                    cd == resp.current_date.i
                IN  IF notified /\ SendMessageRaises(delivered)
                    THEN Body("send_message", Exc("TelegramError", "delivery failed", id),
                              FALSE, cur2, prev, ts, <<>>)
                    ELSE IF resp.current_date.t = "absent"
                    THEN Body("response['current_date']",
                              Exc("KeyError", "'current_date'", id),
                              FALSE, cur2, prev1, ts, msgs)
                    ELSE Body("", NoError, FALSE, cur2, prev1,
                              AdvanceCursor(ts, cd, notified), msgs)

\* lines 133-150, the try block: the request fails with neterr or is
\* answered with status code and body
TryBody(cur, prev, ts, neterr, code, body, delivered) ==
    LET id == FreshId(cur, Deref(prev, cur))
        answer == GetApiAnswer(ts, neterr, code, body)
        checked == CheckResponse(body)
    IN  IF answer.raised
        THEN Body("get_api_answer", Exc(answer.cls, answer.s, id),
                  FALSE, cur, prev, ts, <<>>)
        ELSE IF checked.raised
        THEN Body("check_response", Exc(checked.cls, checked.s, id),
                  FALSE, cur, prev, ts, <<>>)
        ELSE IF NoUpdates(body.homeworks.l)
        THEN Body("", NoError, TRUE, cur, prev, ts, <<>>)
        ELSE ReportBody(cur, prev, body, ts, delivered)

\* a bug: the handler moves the cursor past the failed period
ExceptBody_SkipAhead(cur, prev, err, ts, delivered) ==
    LET cur1 == [cur EXCEPT !.output = err]
        notified == ReportsDiffer(cur1, Deref(prev, cur1))
    IN  Body("", NoError, FALSE, cur1,
             IF notified THEN Copy(cur1) ELSE prev,
             ts + RETRY_PERIOD,
             IF notified THEN <<Sent("ERROR - " \o err.s, delivered)>> ELSE <<>>)

\* a bug: the handler without line 159, the error report never adopted
ExceptBody_NotAdopted(cur, prev, err, ts, delivered) ==
    LET cur1 == [cur EXCEPT !.output = err]
        notified == ReportsDiffer(cur1, Deref(prev, cur1))
    IN  Body("", NoError, FALSE, cur1, prev, ts,
             IF notified THEN <<Sent("ERROR - " \o err.s, delivered)>> ELSE <<>>)

\* lines 153-159: the handler of 'except Exception as error'
ExceptBody(cur, prev, err, ts, delivered) ==
    LET cur1 == [cur EXCEPT !.output = err]
        notified == ReportsDiffer(cur1, Deref(prev, cur1))
    IN  IF notified /\ SendMessageRaises(delivered)
        THEN Body("send_message", Exc("TelegramError", "delivery failed", 0),
                  FALSE, cur1, prev, ts, <<>>)
        ELSE Body("", NoError, FALSE, cur1,
                  IF notified THEN Copy(cur1) ELSE prev,
                  ts,
                  IF notified THEN <<Sent("ERROR - " \o err.s, delivered)>> ELSE <<>>)

---------------------------------------------------------------------------
(* Observations kept for the properties; the program never reads them *)

NoOk == [set |-> FALSE, name |-> "", status |-> "", delivered |-> FALSE]

NoSig == [set |-> FALSE, cls |-> "", s |-> "", homework |-> ""]

Sig(err, homework) ==
    [set |-> TRUE, cls |-> err.cls, s |-> err.s, homework |-> homework]

NoHomework == Homework("", "")

\* what the environment answered to the request of a cycle: the failure of
\* the request, or the status code and, of a body that was received and
\* decoded, its shape and, if that is a mapping with a list of homeworks
\* and an integer current_date, the length and the first element of the
\* list and the current_date
NoInput ==
    [neterr |-> "", code |-> 0, isDict |-> FALSE, hw |-> "", n |-> 0,
     cd |-> "", first |-> NoHomework, current_date |-> 0]

Observe(neterr, code, body) ==
    IF neterr # "" THEN [NoInput EXCEPT !.neterr = neterr]
    ELSE IF code # HTTP_OK \/ body = InvalidJson THEN [NoInput EXCEPT !.code = code]
    ELSE LET shaped == /\ body.isDict /\ body.homeworks.t = "list"
                       /\ body.current_date.t = "int"
         IN  [neterr |-> "", code |-> code, isDict |-> body.isDict,
              hw |-> body.homeworks.t, cd |-> body.current_date.t,
              n |-> IF shaped THEN Len(body.homeworks.l) ELSE 0,
              first |-> IF shaped /\ Len(body.homeworks.l) > 0
                        THEN body.homeworks.l[1] ELSE NoHomework,
              current_date |-> IF shaped THEN body.current_date.i ELSE 0]

\* a cycle: how it ended (none: no cycle yet; running; sent, unchanged,
\* empty or error), the call that raised, and
\*   repeat:    the latest earlier successful non-empty cycle, with no error
\*              cycle since, had the same first homework name and status
\*   lost:      repeat, and the notification of that report was not delivered
\*   first:     no earlier cycle was a successful non-empty one
\*   repeatErr: the cycle before failed with the same class, message and
\*              report homework
\*   afterErr:  a cycle since the latest successful non-empty cycle (or
\*              since the start) handed an error notification to the bot
\*   again:     afterErr, the cycle before being that cycle, and the cycle
\*              before it a successful non-empty one with the same first
\*              homework name and status
Cycle(outcome) ==
    [outcome |-> outcome, by |-> "",
     repeat |-> FALSE, lost |-> FALSE, first |-> FALSE, repeatErr |-> FALSE,
     afterErr |-> FALSE, again |-> FALSE]

NoLast == [set |-> FALSE, name |-> "", status |-> ""]

\* of the earlier cycles: ok, the latest successful non-empty cycle if no
\* cycle failed since; err, the failure of the cycle before; hadOk, some
\* cycle was a successful non-empty one; errSent, an error notification
\* went to the bot since the latest of them; last, what ok was before the
\* cycle before if that cycle failed
NoHist ==
    [ok |-> NoOk, err |-> NoSig, hadOk |-> FALSE, errSent |-> FALSE, last |-> NoLast]

NoCall == [fn |-> "", body |-> NotADict, homework |-> NoHomework, extra |-> ""]

NoResult == [done |-> FALSE, raised |-> FALSE, cls |-> "", s |-> ""]

---------------------------------------------------------------------------
(* The state machine of main() *)

InitialReport == [homework |-> None, output |-> NoneOut]

\* what the name prev_report is bound to
PrevRef == Ref(prev_report, shared)

Init ==
    /\ env \in [TokenNames -> BOOLEAN]
    /\ pc = "start"
    /\ tokens_missing = {}
    /\ timestamp = 0
    /\ current_report = InitialReport
    /\ prev_report = InitialReport
    /\ shared = FALSE
    /\ error = NoError
    /\ payload = 0
    /\ sent = <<>>
    /\ sleeps = <<>>
    /\ fetches = 0
    /\ input = NoInput
    /\ cycle = Cycle("none")
    /\ hist = NoHist
    /\ arg = NoCall
    /\ result = NoResult

\* line 121: check_tokens() raises TokenNotFound, which nothing catches.
\* The list of names that ends the message is kept in tokens_missing
CheckTokens ==
    /\ pc = "start"
    /\ tokens_missing' = TokensMissing(env)
    /\ IF TokensMissing(env) # {}
       THEN /\ pc' = "exit"
            /\ error' = Exc("TokenNotFound",
                            "One or more environment variable not found: ", 0)
       ELSE /\ pc' = "engage"
            /\ UNCHANGED error
    /\ UNCHANGED <<env, timestamp, current_report, prev_report, shared, payload,
                   sent, sleeps, fetches, input, cycle, hist, arg, result>>

\* lines 123-129
Engage ==
    /\ pc = "engage"
    /\ \E delivered \in BOOLEAN, now \in Times :
        IF SendMessageRaises(delivered)
        THEN /\ pc' = "exit"
             /\ UNCHANGED <<timestamp, sent>>
        ELSE /\ pc' = "fetch"
             /\ sent' = <<Sent("---Bot engaged", delivered)>>
             /\ timestamp' = now
    /\ current_report' = InitialReport
    /\ LET copy == Copy(InitialReport)
       IN  prev_report' = copy.dict /\ shared' = copy.shared
    /\ UNCHANGED <<env, tokens_missing, error, payload, sleeps, fetches,
                   input, cycle, hist, arg, result>>

\* lines 132-150: one pass through the try block.  response, homeworks,
\* homework and message are bound and read inside the block only, so they
\* are values of this step and no variables of the model
Try(neterr, code, body) ==
    /\ pc = "fetch"
    /\ input' = Observe(neterr, code, body)
    /\ payload' = timestamp
    /\ fetches' = fetches + 1
    /\ sleeps' = <<>>
    /\ \E delivered \in BOOLEAN :
        LET b == TryBody(current_report, PrevRef, timestamp, neterr, code,
                         body, delivered)
            first == Observe(neterr, code, body).first
            same == /\ hist.ok.set
                    /\ hist.ok.name = first.homework_name
                    /\ hist.ok.status = first.status
            seen == [Cycle("running") EXCEPT
                       !.by = b.by, !.repeat = same,
                       !.lost = same /\ ~hist.ok.delivered,
                       !.first = ~hist.hadOk,
                       !.afterErr = hist.errSent,
                       !.again = /\ hist.errSent /\ hist.err.set /\ hist.last.set
                                 /\ hist.last.name = first.homework_name
                                 /\ hist.last.status = first.status]
        IN  /\ current_report' = b.current_report
            /\ prev_report' = b.prev_report
            /\ shared' = b.shared
            /\ timestamp' = b.timestamp
            /\ sent' = b.sent
            /\ error' = b.exc
            /\ IF b.raised
               THEN /\ pc' = "except"
                    /\ cycle' = seen
                    /\ UNCHANGED hist
               ELSE IF b.continued
               THEN /\ pc' = ContinueTarget
                    /\ cycle' = [seen EXCEPT !.outcome = "empty"]
                    /\ hist' = [hist EXCEPT !.err = NoSig, !.last = NoLast]
               ELSE /\ pc' = "sleep"
                    /\ cycle' = [seen EXCEPT !.outcome =
                                   IF b.sent # <<>> THEN "sent" ELSE "unchanged"]
                    /\ hist' = [ok |-> [set |-> TRUE,
                                        name |-> first.homework_name,
                                        status |-> first.status,
                                        delivered |-> IF b.sent # <<>> THEN delivered
                                                      ELSE hist.ok.delivered],
                                err |-> NoSig, hadOk |-> TRUE, errSent |-> FALSE,
                                last |-> NoLast]
    /\ UNCHANGED <<env, tokens_missing, arg, result>>

\* lines 152-159; an exception leaving the handler ends main() after the
\* finally clause has slept
Except ==
    /\ pc = "except"
    /\ \E delivered \in BOOLEAN :
        LET b == ExceptBody(current_report, PrevRef, error, timestamp, delivered)
            sig == Sig(error, b.current_report.homework)
        IN  /\ current_report' = b.current_report
            /\ prev_report' = b.prev_report
            /\ shared' = b.shared
            /\ timestamp' = b.timestamp
            /\ sent' = sent \o b.sent
            /\ error' = b.exc
            /\ cycle' = [cycle EXCEPT !.outcome = "error",
                                      !.repeatErr = hist.err = sig]
            /\ hist' = [hist EXCEPT !.ok = NoOk, !.err = sig,
                                    !.errSent = @ \/ b.sent # <<>>,
                                    !.last = [set |-> hist.ok.set,
                                              name |-> hist.ok.name,
                                              status |-> hist.ok.status]]
            /\ IF b.raised
               THEN /\ pc' = "exit"
                    /\ sleeps' = Append(sleeps, RETRY_PERIOD)
               ELSE /\ pc' = "sleep"
                    /\ UNCHANGED sleeps
    /\ UNCHANGED <<env, tokens_missing, payload, fetches, input, arg, result>>

\* the cycle ended without an exception and not through continue
Succeeded == cycle.outcome \in {"sent", "unchanged"}

\* lines 161-162: the finally clause, then the next iteration
Sleep ==
    /\ pc = "sleep"
    /\ sleeps' = Append(sleeps, RETRY_PERIOD)
    /\ fetches' = 0
    /\ sent' = <<>>
    /\ cycle' = Cycle(cycle.outcome)
    /\ input' = [NoInput EXCEPT !.current_date =
                    IF Succeeded THEN input.current_date ELSE 0]
    /\ pc' = "fetch"
    /\ UNCHANGED <<env, tokens_missing, timestamp, current_report, prev_report,
                   shared, error, payload, hist, arg, result>>

Next ==
    \/ CheckTokens
    \/ Engage
    \/ \E e \in NetworkErrors : Try(e, HTTP_OK, InvalidJson)
    \/ \E code \in StatusCodes \ {HTTP_OK} : Try("", code, InvalidJson)
    \/ \E body \in Bodies : Try("", HTTP_OK, body)
    \/ Except
    \/ Sleep

Spec == Init /\ [][Next]_vars

\* main() is sequential code whose every call returns or raises (requests.get
\* answers or fails, time.sleep ends): a step that can be taken is taken
FairSpec == Spec /\ WF_vars(Next)

---------------------------------------------------------------------------
(* The helper functions called directly, on every argument of a bounded set *)

Names == {Absent, None, "hw1", "hw2"}

Statuses == {Absent, None, "unknown"} \cup VerdictStatuses

\* values of a key of the homework record that parse_status does not read
Extras == {"", "Looks good"}

\* the homework record with such a key
WithExtra(h, x) ==
    [homework_name |-> h.homework_name, status |-> h.status, reviewer_comment |-> x]

Calls ==
    {[NoCall EXCEPT !.fn = "check_response", !.body = b] : b \in Responses} \cup
    {[NoCall EXCEPT !.fn = "parse_status", !.homework = Homework(n, st), !.extra = x] :
        n \in Names, st \in Statuses, x \in Extras}

CallInit ==
    /\ env = [n \in TokenNames |-> TRUE]
    /\ pc = "call"
    /\ tokens_missing = {}
    /\ timestamp = 0
    /\ current_report = InitialReport
    /\ prev_report = InitialReport
    /\ shared = FALSE
    /\ error = NoError
    /\ payload = 0
    /\ sent = <<>>
    /\ sleeps = <<>>
    /\ fetches = 0
    /\ input = NoInput
    /\ cycle = Cycle("none")
    /\ hist = NoHist
    /\ arg \in Calls
    /\ result = NoResult

Returned(r) == [done |-> TRUE, raised |-> r.raised, cls |-> r.cls, s |-> r.s]

CallCheckResponse ==
    /\ pc = "call"
    /\ arg.fn = "check_response"
    /\ result' = Returned(CheckResponse(arg.body))
    /\ pc' = "return"
    /\ UNCHANGED <<env, tokens_missing, timestamp, current_report, prev_report,
                   shared, error, payload, sent, sleeps, fetches, input, cycle,
                   hist, arg>>

CallParseStatus ==
    /\ pc = "call"
    /\ arg.fn = "parse_status"
    /\ result' = Returned(ParseStatus(WithExtra(arg.homework, arg.extra)))
    /\ pc' = "return"
    /\ UNCHANGED <<env, tokens_missing, timestamp, current_report, prev_report,
                   shared, error, payload, sent, sleeps, fetches, input, cycle,
                   hist, arg>>

CallNext == CallCheckResponse \/ CallParseStatus

CallSpec == CallInit /\ [][CallNext]_vars

---------------------------------------------------------------------------
(* What the claims speak of *)

\* the request was answered with status 200 and a decodable body
Answered(i) == i.neterr = "" /\ i.code = HTTP_OK

\* ... that is a mapping with a list of homeworks and a current_date
ValidInput(i) == Answered(i) /\ i.isDict /\ i.hw = "list" /\ i.cd = "int"

EmptyInput(i) == ValidInput(i) /\ i.n = 0

\* ... whose first homework has a name and a status of the verdict table
GoodInput(i) ==
    /\ ValidInput(i)
    /\ i.n > 0
    /\ i.first.homework_name \notin {Absent, None}
    /\ i.first.status \in VerdictStatuses

\* the positions of main() inside 'while True'
LoopPcs == {"fetch", "except", "sleep"}

\* the try block of the cycle has run, its handler too if it raised
CycleDone == pc = "sleep"

\* the cursor is what the latest request used as from_date
CursorKept == timestamp = payload

---------------------------------------------------------------------------
(* The claims *)

\* C1: a successful non-empty cycle whose first homework has the name and
\* the status of the latest earlier successful non-empty cycle, with no
\* error cycle between the two, sends no notification.
C1_NoSecondNotification ==
    (CycleDone /\ GoodInput(input) /\ cycle.repeat) =>
        (Succeeded /\ sent = <<>>)

C1_Witness ==
    CycleDone /\ GoodInput(input) /\ cycle.repeat /\ cycle.outcome = "unchanged"

\* C2: an error cycle that follows a cycle which failed with the same error
\* class and message and the same homework in the report sends no error
\* notification.
C2_NoRepeatedErrorNotification ==
    (CycleDone /\ cycle.outcome = "error" /\ cycle.repeatErr) => sent = <<>>

\* C3: a cycle whose response is valid with an empty homeworks list sends
\* nothing and changes neither the cursor nor the two reports, and the next
\* request uses the from_date this one used.
C3_EmptyCycleChangesNothing ==
    /\ [][(pc = "fetch" /\ EmptyInput(input')) =>
            /\ sent' = <<>>
            /\ cycle'.outcome = "empty"
            /\ pc' = "sleep"
            /\ UNCHANGED <<timestamp, current_report, prev_report>>]_vars
    /\ [][(pc = "sleep" /\ EmptyInput(input)) =>
            UNCHANGED <<timestamp, current_report, prev_report>>]_vars
    /\ [][(pc = "fetch" /\ cycle.outcome = "empty") => payload' = payload]_vars

C3_Witness ==
    /\ pc = "fetch" /\ cycle.outcome = "empty" /\ timestamp = payload
    /\ current_report.homework = "hw1"

\* C4: a cycle that is answered a valid non-empty response whose first
\* homework parses ends with the cursor at the response's current_date,
\* whether it notified or not, and the next request uses it as from_date.
C4_CursorAdvances ==
    /\ [](CycleDone /\ GoodInput(input) =>
            Succeeded /\ timestamp = input.current_date)
    /\ [][(pc = "fetch" /\ Succeeded) => payload' = input.current_date]_vars

C4_Witness ==
    /\ CycleDone /\ cycle.outcome = "unchanged"
    /\ timestamp = input.current_date /\ timestamp # payload

\* C5: a cycle whose fetch, validation or status parsing fails leaves the
\* cursor as it was, and the next request uses the from_date this one used.
C5_FailedCycleKeepsCursor ==
    /\ [](pc \in {"except", "sleep"} /\ ~GoodInput(input) /\ ~EmptyInput(input)
            => CursorKept)
    /\ [][(pc = "fetch" /\ cycle.outcome = "error") => payload' = payload]_vars

C5_Witness ==
    /\ CycleDone /\ cycle.outcome = "error" /\ cycle.by = "parse_status"
    /\ CursorKept /\ hist.hadOk

\* C6: once check_tokens has passed the loop is never left, whatever a cycle
\* meets (fetch, structural, name or status error, failed delivery): from
\* every position in the loop main() comes, after a sleep, to the head of
\* the loop and makes a new request.
C6_LoopNeverEnds ==
    /\ [][(pc \in LoopPcs) => (pc' \in LoopPcs)]_vars
    /\ (pc \in LoopPcs) ~> (pc = "fetch" /\ fetches = 0 /\ <>(fetches = 1))

C6_Witness ==
    /\ CycleDone /\ cycle.outcome = "error" /\ cycle.by = "get_api_answer"
    /\ sent # <<>> /\ ~sent[1].delivered /\ hist.hadOk

\* C7: a failed delivery never ends main(); the report is adopted as the
\* previous one and the cursor of a successful cycle advances as if the
\* message had been delivered (the locals after a block do not depend on
\* the delivery), and a later cycle with the same report does not send the
\* lost message again.
C7_DeliveryFailureIgnored ==
    /\ pc = "exit" => tokens_missing # {}
    /\ (CycleDone /\ sent # <<>> /\ ~sent[Len(sent)].delivered) =>
          /\ prev_report = current_report
          /\ Succeeded => timestamp = input.current_date
    /\ (CycleDone /\ GoodInput(input) /\ cycle.lost) => sent = <<>>
    /\ pc = "fetch" =>
          \A body \in Bodies :
             LET ok == TryBody(current_report, PrevRef, timestamp, "", HTTP_OK,
                               body, TRUE)
                 ko == TryBody(current_report, PrevRef, timestamp, "", HTTP_OK,
                               body, FALSE)
             IN  /\ ok.raised = ko.raised
                 /\ ok.current_report = ko.current_report
                 /\ ok.prev_report = ko.prev_report
                 /\ ok.timestamp = ko.timestamp
                 /\ Len(ok.sent) = Len(ko.sent)
    /\ pc = "except" =>
          LET ok == ExceptBody(current_report, PrevRef, error, timestamp, TRUE)
              ko == ExceptBody(current_report, PrevRef, error, timestamp, FALSE)
          IN  /\ ok.raised = ko.raised
              /\ ok.current_report = ko.current_report
              /\ ok.prev_report = ko.prev_report
              /\ ok.timestamp = ko.timestamp
              /\ Len(ok.sent) = Len(ko.sent)

C7_Witness ==
    CycleDone /\ GoodInput(input) /\ cycle.lost /\ sent = <<>>

\* C8: the first cycle that is answered a valid non-empty response whose
\* first homework has a name and a known status sends exactly the status
\* message of that homework and leaves the cursor at the response's
\* current_date; from cursor 1000, hw1/reviewing with current_date 2000
\* gives the 'reviewing' message for hw1 and cursor 2000.
C8_FirstGoodCycle ==
    (CycleDone /\ GoodInput(input) /\ cycle.first) =>
        /\ Len(sent) = 1
        /\ sent[1].text = "Izmenilsya status proverki raboty \""
                            \o input.first.homework_name \o "\". "
                            \o HOMEWORK_VERDICTS[input.first.status]
        /\ timestamp = input.current_date
        /\ (/\ payload = 1000
            /\ input.first = Homework("hw1", "reviewing")
            /\ input.current_date = 2000) =>
              /\ sent[1].text =
                   "Izmenilsya status proverki raboty \"hw1\". Rabota vzyata na proverku revyuerom."
              /\ timestamp = 2000

C8_Witness ==
    /\ CycleDone /\ cycle.first /\ payload = 1000 /\ timestamp = 2000
    /\ input.first = Homework("hw1", "reviewing")
    /\ input.n > 1
    /\ Len(sent) = 1

\* C9: every cycle, however it ended, is followed by exactly one sleep of
\* RETRY_PERIOD before the next request, and no two requests are made
\* without a sleep between them.
C9_OneSleepPerCycle ==
    /\ fetches <= 1
    /\ (pc = "fetch" /\ cycle.outcome # "none") => sleeps = <<RETRY_PERIOD>>
    /\ pc \in {"except", "sleep"} => (sleeps = <<>> /\ fetches = 1)

C9_Witness ==
    pc = "fetch" /\ cycle.outcome = "empty" /\ sleeps = <<RETRY_PERIOD>>

\* C10: check_response raises APIKeyError with a message naming a missing
\* key for every mapping whose homeworks or current_date is absent or null,
\* and returns normally exactly for a mapping with both keys non-null and a
\* list as homeworks.
C10_CheckResponse ==
    (result.done /\ arg.fn = "check_response") =>
        LET b == arg.body
            missing == {k \in {"homeworks", "current_date"} :
                          b[k].t \in {"absent", "none"}}
        IN  /\ (b.isDict /\ missing # {}) =>
                 /\ result.raised
                 /\ result.cls = "APIKeyError"
                 /\ \E k \in missing :
                      result.s = "API response doesn't contain key '" \o k \o "'"
            /\ ~result.raised <=>
                 (b.isDict /\ missing = {} /\ b.homeworks.t = "list")

C10_Witness ==
    /\ result.done /\ arg.fn = "check_response" /\ arg.body.isDict
    /\ arg.body.homeworks.t = "list" /\ arg.body.current_date.t = "none"
    /\ result.cls = "APIKeyError"

\* C11: parse_status raises HomeworkNameNotFoundError for every homework
\* whose homework_name is missing or null, whatever its status, and
\* HomeworkStatusError for every homework with a name whose status is
\* missing or not approved, reviewing or rejected.
C11_ParseStatusErrors ==
    (result.done /\ arg.fn = "parse_status") =>
        LET noName == arg.homework.homework_name \in {Absent, None}
            badStatus == arg.homework.status \notin {"approved", "reviewing", "rejected"}
        IN  /\ noName => (result.raised /\ result.cls = "HomeworkNameNotFoundError")
            /\ (~noName /\ badStatus) =>
                 (result.raised /\ result.cls = "HomeworkStatusError")
            /\ result.raised => (noName \/ badStatus)

C11_Witness ==
    /\ result.done /\ arg.fn = "parse_status"
    /\ arg.homework = Homework(Absent, "unknown")
    /\ result.cls = "HomeworkNameNotFoundError"

\* C12: for a homework with a name N and a status S of the verdict table
\* parse_status returns the fixed prefix, N in quotes and the text of S,
\* which is the text of no other status, whatever else the record holds.
C12_ParseStatusMessage ==
    (/\ result.done /\ arg.fn = "parse_status"
     /\ arg.homework.homework_name \notin {Absent, None}
     /\ arg.homework.status \in {"approved", "reviewing", "rejected"}) =>
        LET text == CASE arg.homework.status = "approved" ->
                           "Rabota proverena: revyueru vsyo ponravilos. Ura!"
                      [] arg.homework.status = "reviewing" ->
                           "Rabota vzyata na proverku revyuerom."
                      [] arg.homework.status = "rejected" ->
                           "Rabota proverena: u revyuera est zamechaniya."
        IN  /\ ~result.raised
            /\ result.s = "Izmenilsya status proverki raboty \""
                            \o arg.homework.homework_name \o "\". " \o text
            /\ \A other \in DOMAIN HOMEWORK_VERDICTS \ {arg.homework.status} :
                 HOMEWORK_VERDICTS[other] # text

C12_Witness ==
    /\ result.done /\ arg.fn = "parse_status" /\ arg.extra # ""
    /\ arg.homework = Homework("hw2", "approved")
    /\ result.s = "Izmenilsya status proverki raboty \"hw2\". Rabota proverena: revyueru vsyo ponravilos. Ura!"

\* C13: when a credential is absent check_tokens raises TokenNotFound for
\* exactly the absent ones and main() ends there, no message sent and no
\* request made; when all three are present it raises nothing and changes
\* nothing.
C13_CheckTokens ==
    /\ [](pc # "start" =>
            LET absent == {n \in {"PRACTICUM_TOKEN", "TELEGRAM_TOKEN", "TELEGRAM_CHAT_ID"} :
                             ~env[n]}
            IN  /\ tokens_missing = absent
                /\ absent # {} =>
                     /\ pc = "exit"
                     /\ error.t = "exc" /\ error.cls = "TokenNotFound"
                     /\ sent = <<>> /\ sleeps = <<>>
                     /\ fetches = 0 /\ input = NoInput /\ cycle.outcome = "none")
    /\ [][(pc = "start" /\ \A n \in DOMAIN env : env[n]) =>
            /\ pc' = "engage"
            /\ UNCHANGED <<env, timestamp, current_report, prev_report, error,
                           payload, sent, sleeps, fetches, input, cycle, hist>>]_vars
    /\ [][pc # "exit"]_vars

C13_Witness ==
    /\ pc = "exit" /\ error.cls = "TokenNotFound"
    /\ tokens_missing = {"TELEGRAM_TOKEN", "TELEGRAM_CHAT_ID"}
    /\ env["PRACTICUM_TOKEN"]

\* C14: when the first homework of a valid, non-empty response has no
\* homework_name (the key missing, or null), the exception the cycle
\* catches and reports is HomeworkNameNotFoundError.
C14_NameErrorReported ==
    (/\ pc = "except"
     /\ ValidInput(input) /\ input.n > 0
     /\ input.first.homework_name \in {Absent, None}) =>
        error.cls = "HomeworkNameNotFoundError"

\* C15: of a valid response with several homeworks only the first one
\* counts: the try block ends the same way (exception or not, notification,
\* cursor, both reports) as for the response with the same first homework
\* and current_date and no further homework, so two responses that agree on
\* these end the cycle the same way.
C15_OnlyFirstHomework ==
    pc = "fetch" =>
        \A body \in Responses :
            (/\ body.isDict /\ body.homeworks.t = "list" /\ body.current_date.t = "int"
             /\ Len(body.homeworks.l) > 1) =>
                LET alone == [body EXCEPT !.homeworks = ListVal(<<body.homeworks.l[1]>>)]
                IN  \A delivered \in BOOLEAN :
                        LET all == TryBody(current_report, PrevRef, timestamp, "",
                                           HTTP_OK, body, delivered)
                            one == TryBody(current_report, PrevRef, timestamp, "",
                                           HTTP_OK, alone, delivered)
                        IN  /\ all.raised = one.raised /\ all.exc = one.exc
                            /\ all.sent = one.sent
                            /\ all.timestamp = one.timestamp
                            /\ all.prev_report = one.prev_report
                            /\ all.current_report = one.current_report

C15_Witness ==
    /\ CycleDone /\ ValidInput(input) /\ input.n > 1
    /\ input.first = Homework("hw1", "approved")
    /\ cycle.outcome = "sent"
    /\ timestamp = input.current_date /\ prev_report = current_report

\* C16: a cycle makes one request and hands at most one message to the
\* bot: the handler starts only when the try block has sent nothing, so no
\* cycle sends a status notification and an error notification, and a
\* cycle that sent a status notification raised nothing.
C16_OneNotificationPerCycle ==
    /\ pc \in LoopPcs => (fetches <= 1 /\ Len(sent) <= 1)
    /\ pc \in {"except", "sleep"} => fetches = 1
    /\ pc = "except" => sent = <<>>
    /\ (CycleDone /\ cycle.outcome = "sent") => (cycle.by = "" /\ error = NoError)
    /\ (CycleDone /\ cycle.outcome = "error" /\ sent # <<>>) =>
         \E delivered \in BOOLEAN :
             sent = <<Sent("ERROR - " \o hist.err.s, delivered)>>

C16_Witness ==
    /\ CycleDone /\ cycle.outcome = "error" /\ cycle.by = "parse_status"
    /\ fetches = 1 /\ Len(sent) = 1 /\ hist.hadOk

\* C17: prev_report changes only in a step of a cycle that hands a message
\* to the bot, and after such a step it equals current_report, the report
\* notified; every other step leaves it as it was, also when it updates
\* current_report in place.
C17_PrevReportAdopted ==
    [][(pc \in LoopPcs) =>
         (LET notifies == \/ (pc = "fetch" /\ sent' # <<>>)
                          \/ (pc = "except" /\ sent' # sent)
          IN  /\ (prev_report' # prev_report) => notifies
              /\ notifies => (prev_report' = current_report'))]_vars

C17_Witness ==
    /\ pc = "except" /\ cycle.by = "parse_status"
    /\ current_report.homework = "hw1"
    /\ prev_report.homework = "hw2" /\ prev_report.output # NoneOut
    /\ current_report.output = prev_report.output

\* C18: after a cycle that handed an error notification to the bot, the
\* next cycle with a valid response whose first homework has a name and a
\* known status sends the status notification of that homework, also when
\* the latest status notification before the error was the same one.
C18_StatusAfterError ==
    (CycleDone /\ GoodInput(input) /\ cycle.afterErr) =>
        /\ cycle.outcome = "sent"
        /\ Len(sent) = 1
        /\ sent[1].text = "Izmenilsya status proverki raboty \""
                             \o input.first.homework_name \o "\". "
                             \o HOMEWORK_VERDICTS[input.first.status]

C18_Witness ==
    /\ CycleDone /\ GoodInput(input) /\ cycle.again
    /\ input.first = Homework("hw1", "rejected")
    /\ cycle.outcome = "sent" /\ Len(sent) = 1

====
